---- MODULE Spec2Model ----
(***************************************************************************)
(* The block manager of src/model/block.rs: the block files of one node,   *)
(* its reference counters (rc tree), its resync queue, the mutation lock,  *)
(* the resync worker, and the RPC handlers that run beside the worker.     *)
(*                                                                         *)
(* Granularity.  The sled operations and put_to_resync are synchronous and *)
(* are one step each.  The async functions are cut at their .await points  *)
(* where another task can change what they read next.  Time is in          *)
(* milliseconds, as now_msec() gives it.                                   *)
(***************************************************************************)
EXTENDS Integers, Sequences, FiniteSets, TLC

\* ---------------------------------------------------------------- constants

BLOCK_RW_TIMEOUT == 42000
BLOCK_GC_TIMEOUT == 60000
RESYNC_RETRY_TIMEOUT == 10000

\* Width of a big-endian u64 (u64::to_be_bytes).
U64Len == 8

\* write_quorum() of the replication strategy (replication factor 3).
write_quorum == 2

\* ------------------------------------------------------------------- bounds

\* Length of a hash in bytes (32 in the program).
HashLen == 2
\* The clock does not advance past MaxTime.
MaxTime == 42000
\* Spec, ReadSpec: block_incref is not called on a counter that is MaxRc, and the
\* callers outside the worker do not push to a queue that holds MaxQueue entries.
MaxRc == 1
MaxQueue == 1
\* QueueSpec: the same two bounds.
QMaxRc == 2
QMaxQueue == 2

\* ------------------------------------------------------------ values, nodes

Byte == 0..255

\* The content of a path that does not exist: no sequence of bytes.
NoFile == <<-1>>
NoHash == <<>>
NoKey == <<>>

\* This node (system.id) and its peers.
Self == 0
Peers == {1, 2}
Nodes == {Self} \cup Peers

\* The answers of replication.write_nodes(hash) the model draws from: this node
\* and both peers, this node and one peer, one peer alone (no quorum).
Layouts == {Nodes, {Self, 1}, {1}}

\* The block contents of the model: one is a proper prefix of the other.
Blocks == {<<104>>, <<104, 105>>}

Min(a, b) == IF a < b THEN a ELSE b

RECURSIVE SumSeq(_)
SumSeq(s) == IF s = <<>> THEN 0 ELSE s[1] + SumSeq(Tail(s))

\* A stand-in digest of HashLen bytes: it depends on every byte of the data
\* and on its length; two blocks of the model never collide.
blake2sum(data) ==
    [i \in 1..HashLen |-> (SumSeq(data) * (i + 1) + Len(data) * (7 * i) + i) % 256]

Hashes == {blake2sum(b) : b \in Blocks}

\* ------------------------------------------------------- big-endian numbers

RECURSIVE be_bytes(_, _)
be_bytes(x, n) == IF n = 0 THEN <<>> ELSE Append(be_bytes(x \div 256, n - 1), x % 256)

u64_to_be_bytes(x) == be_bytes(x, U64Len)

\* The value of the first n bytes, most significant byte first.
RECURSIVE be_value(_, _)
be_value(bytes, n) ==
    IF n = 0 THEN 0 ELSE be_value(bytes, n - 1) * 256 + bytes[n]

\* u64::from_be_bytes of the 8 bytes
u64_from_be_bytes(bytes) == be_value(bytes, Len(bytes))

\* Order of the keys of a sled tree: lexicographic on the bytes.
LexLess(a, b) ==
    \/ \E i \in 1..Min(Len(a), Len(b)) :
          /\ a[i] < b[i]
          /\ \A j \in 1..(i - 1) : a[j] = b[j]
    \/ /\ Len(a) < Len(b)
       /\ \A j \in 1..Len(a) : a[j] = b[j]

\* ---------------------------------------------------------------- variables

VARIABLES
    now,             \* now_msec()
    rc,              \* the rc tree: hash -> 8 big-endian bytes
    resync_queue,    \* the resync_queue tree: key -> hash
    block_file,      \* hash -> content of the file at block_path(hash), or NoFile
    tmp_file,        \* hash -> content of the .tmp sibling, or NoFile
    corrupted_file,  \* hash -> content of the .corrupted sibling, or NoFile
    mutation_lock,   \* "free", or the task that holds the mutex
    worker,          \* the resync worker (resync_loop, resync_iter, resync_block)
    putter,          \* a task in handle(PutBlock): write_block
    reader,          \* a task in read_block (handle(GetBlock), scrub)
    must_exit,       \* the shutdown signal
    write_nodes,     \* replication.write_nodes(hash)
    holders,         \* hash -> the peers that hold the block
    data_dir,        \* the entries below data_dir: path from data_dir, file type
    scan             \* a task in for_each_file (repair, scrub) and what it yields

vars == <<now, rc, resync_queue, block_file, tmp_file, corrupted_file,
          mutation_lock, worker, putter, reader, must_exit, write_nodes,
          holders, data_dir, scan>>

disk == <<block_file, tmp_file, corrupted_file>>

\* ------------------------------------------------------------- the rc tree

get_block_rc(h) == IF h \in DOMAIN rc THEN u64_from_be_bytes(rc[h]) ELSE 0

\* fetch_and_update of block_incref: Some(old_v + 1).
rc_incr(h) ==
    [k \in DOMAIN rc \cup {h} |->
        IF k = h THEN u64_to_be_bytes(get_block_rc(h) + 1) ELSE rc[k]]

\* A decref that stores the decremented counter even when it reaches zero.
rc_decr_keeping_zero(h) ==
    IF get_block_rc(h) >= 1
    THEN [k \in DOMAIN rc |-> IF k = h THEN u64_to_be_bytes(get_block_rc(h) - 1) ELSE rc[k]]
    ELSE [k \in DOMAIN rc \ {h} |-> rc[k]]

\* update_and_fetch of block_decref: Some(old_v - 1) if old_v > 1, else None.
rc_decr(h) ==
    IF get_block_rc(h) > 1
    THEN [k \in DOMAIN rc |-> IF k = h THEN u64_to_be_bytes(get_block_rc(h) - 1) ELSE rc[k]]
    ELSE [k \in DOMAIN rc \ {h} |-> rc[k]]

\* ------------------------------------------------------- the resync queue

resync_key(when, h) == u64_to_be_bytes(when) \o h

key_time(key) == u64_from_be_bytes(SubSeq(key, 1, U64Len))

tree_insert(tree, key, value) ==
    [k \in DOMAIN tree \cup {key} |-> IF k = key THEN value ELSE tree[k]]

tree_remove(tree, key) == [k \in DOMAIN tree \ {key} |-> tree[k]]

\* The key a pop from the other end of the tree would take.
max_key(tree) == CHOOSE k \in DOMAIN tree : \A o \in DOMAIN tree \ {k} : LexLess(o, k)

\* The key pop_min takes: the least one in byte order.
min_key(tree) == CHOOSE k \in DOMAIN tree : \A o \in DOMAIN tree \ {k} : LexLess(k, o)

\* put_to_resync: the insert ...
put_to_resync(tree, h, delay) == tree_insert(tree, resync_key(now + delay, h), h)

\* resync_iter hands Ok(false) to resync_loop after a select!
iter_idle(w) == [w EXCEPT !.pc = "iter_ret", !.key = NoKey, !.iter = "Ok(false)"]

\* ... and its notify_waiters(): a worker parked in resync_iter's select! wakes.
notify_waiters(w) ==
    IF w.pc \in {"parked_empty", "parked_timed"} THEN iter_idle(w) ELSE w

\* ------------------------------------------------------------------- Init

NoResps == <<>>
\* The (exists, needed) pair before check_block_status has run.
NoStatus == [unset |-> TRUE]

IdleWorker ==
    [pc |-> "loop", hash |-> NoHash, key |-> NoKey, who |-> {}, resps |-> NoResps,
     need_nodes |-> {}, data |-> NoFile, sent |-> {}, status |-> NoStatus,
     res |-> "none", iter |-> "none"]

IdlePutter == [pc |-> "idle", hash |-> NoHash, data |-> NoFile, ret |-> "none"]

IdleReader == [pc |-> "idle", hash |-> NoHash, data |-> NoFile, ret |-> "none"]

IdleScan == [pc |-> "idle", found |-> {}]

\* A fresh node: empty trees, empty data directory, worker entering resync_loop.
Init ==
    /\ now = 0
    /\ rc = <<>>
    /\ resync_queue = <<>>
    /\ block_file = [h \in Hashes |-> NoFile]
    /\ tmp_file = [h \in Hashes |-> NoFile]
    /\ corrupted_file = [h \in Hashes |-> NoFile]
    /\ mutation_lock = "free"
    /\ worker = IdleWorker
    /\ putter = IdlePutter
    /\ reader = IdleReader
    /\ must_exit = FALSE
    /\ data_dir = {}
    /\ scan = IdleScan
    /\ write_nodes \in Layouts
    /\ holders = [h \in Hashes |-> {}]

\* ------------------------------------------------------- reference counter

\* An incref that bumps the counter and schedules nothing.
block_incref_without_resync(h) ==
    /\ rc' = rc_incr(h)
    /\ UNCHANGED <<now, resync_queue, worker, disk, mutation_lock, putter, reader,
                   must_exit, write_nodes, data_dir, scan, holders>>

block_incref(h) ==
    /\ rc' = rc_incr(h)
    /\ IF get_block_rc(h) = 0
       THEN /\ resync_queue' = put_to_resync(resync_queue, h, BLOCK_RW_TIMEOUT)
            /\ worker' = notify_waiters(worker)
       ELSE UNCHANGED <<resync_queue, worker>>
    /\ UNCHANGED <<now, disk, mutation_lock, putter, reader, must_exit,
                   write_nodes, data_dir, scan, holders>>

\* A decref that updates the counter and schedules nothing.
block_decref_without_resync(h) ==
    /\ rc' = rc_decr(h)
    /\ UNCHANGED <<now, resync_queue, worker, disk, mutation_lock, putter, reader,
                   must_exit, write_nodes, data_dir, scan, holders>>

block_decref(h) ==
    /\ rc' = rc_decr(h)
    /\ IF h \notin DOMAIN rc'
       THEN /\ resync_queue' = put_to_resync(resync_queue, h, BLOCK_GC_TIMEOUT)
            /\ worker' = notify_waiters(worker)
       ELSE UNCHANGED <<resync_queue, worker>>
    /\ UNCHANGED <<now, disk, mutation_lock, putter, reader, must_exit,
                   write_nodes, data_dir, scan, holders>>

\* repair_data_store: put_to_resync(hash, 0) for a referenced block or a file found
repair_data_store(h) ==
    /\ resync_queue' = put_to_resync(resync_queue, h, 0)
    /\ worker' = notify_waiters(worker)
    /\ UNCHANGED <<now, rc, disk, mutation_lock, putter, reader, must_exit,
                   write_nodes, data_dir, scan, holders>>

\* ------------------------------------------------------------------ clock

\* Time passes until the next task of the queue is due.
Tick ==
    /\ DOMAIN resync_queue # {}
    /\ key_time(min_key(resync_queue)) > now
    /\ now' = key_time(min_key(resync_queue))
    /\ UNCHANGED <<rc, resync_queue, disk, mutation_lock, worker, putter, reader,
                   must_exit, write_nodes, data_dir, scan, holders>>

\* Another node stores the block on a peer.
PeerStore(h, p) ==
    /\ p \notin holders[h]
    /\ holders' = [holders EXCEPT ![h] = @ \cup {p}]
    /\ UNCHANGED <<now, rc, resync_queue, disk, mutation_lock, worker, putter,
                   reader, must_exit, write_nodes, data_dir, scan>>

Shutdown ==
    /\ ~must_exit
    /\ must_exit' = TRUE
    /\ UNCHANGED <<now, rc, resync_queue, disk, mutation_lock, worker, putter,
                   reader, write_nodes, data_dir, scan, holders>>

\* ------------------------------------------------ the files of a block

\* check_block_status: fs::metadata(path).is_ok() and get_block_rc(hash) > 0
exists(h) == block_file[h] # NoFile
needed(h) == get_block_rc(h) > 0
check_block_status(h) == [exists |-> exists(h), needed |-> needed(h)]

\* A deletion test that looks at the file only, not at the refcount.
is_unneeded_ignoring_rc(status) == status.exists

\* resync_block, delete_if_unneeded: exists && !needed
is_unneeded(status) == status.exists /\ ~status.needed

\* resync_block: needed && !exists
is_missing(status) == status.needed /\ ~status.exists

\* A quorum test that never refuses.
quorum_never_missing(nodes) == FALSE

\* resync_block: who.len() < write_quorum()
quorum_missing(nodes) == Cardinality(nodes) < write_quorum

\* A read that accepts whatever the file holds.
digest_never_differs(h, data) == FALSE

\* read_block: blake2sum(&data[..]) != *hash
digest_differs(h, data) == blake2sum(data) # h

\* write_block: File::create(path2) of the .tmp sibling
write_create(h) ==
    /\ tmp_file' = [tmp_file EXCEPT ![h] = <<>>]
    /\ UNCHANGED <<block_file, corrupted_file>>

\* write_block: write_all(data), one byte at a time
write_all_step(h, data) ==
    /\ tmp_file' = [tmp_file EXCEPT ![h] = Append(@, data[Len(@) + 1])]
    /\ UNCHANGED <<block_file, corrupted_file>>

\* A write that is taken as done once the first byte is in the file.
write_all_done_after_first_byte(h, data) == Len(tmp_file[h]) >= 1

\* write_block: write_all(data) has returned
write_all_done(h, data) == Len(tmp_file[h]) = Len(data)

\* write_block: fs::rename(path2, path)
write_rename(h) ==
    /\ block_file' = [block_file EXCEPT ![h] = tmp_file[h]]
    /\ tmp_file' = [tmp_file EXCEPT ![h] = NoFile]
    /\ UNCHANGED corrupted_file

\* move_block_to_corrupted: fs::rename(path, path2)
rename_to_corrupted(h) ==
    /\ corrupted_file' = [corrupted_file EXCEPT ![h] = block_file[h]]
    /\ block_file' = [block_file EXCEPT ![h] = NoFile]
    /\ UNCHANGED tmp_file

\* A remove_file that leaves the file where it is.
remove_file_keeping_file(h) == UNCHANGED <<block_file, tmp_file, corrupted_file>>

\* delete_if_unneeded: fs::remove_file(path)
remove_file(h) ==
    /\ block_file' = [block_file EXCEPT ![h] = NoFile]
    /\ UNCHANGED <<tmp_file, corrupted_file>>

\* --------------------------------------------- resync_loop and resync_iter

\* resync_loop: while !*must_exit.borrow()
LoopExit ==
    /\ worker.pc = "loop"
    /\ must_exit
    /\ worker' = [worker EXCEPT !.pc = "exited"]
    /\ UNCHANGED <<now, rc, resync_queue, disk, mutation_lock, putter, reader,
                   must_exit, write_nodes, data_dir, scan, holders>>

\* resync_iter: pop_min() gives None
IterEmpty ==
    /\ worker.pc = "loop"
    /\ ~must_exit
    /\ DOMAIN resync_queue = {}
    /\ worker' = [worker EXCEPT !.pc = "park_empty"]
    /\ UNCHANGED <<now, rc, resync_queue, disk, mutation_lock, putter, reader,
                   must_exit, write_nodes, data_dir, scan, holders>>

\* resync_iter: pop_min() gives an entry that is due; resync_block starts
IterDue ==
    /\ worker.pc = "loop"
    /\ ~must_exit
    /\ DOMAIN resync_queue # {}
    /\ LET k == min_key(resync_queue) IN
          /\ now >= key_time(k)
          /\ resync_queue' = tree_remove(resync_queue, k)
          /\ worker' = [worker EXCEPT !.pc = "rb_check", !.hash = resync_queue[k],
                                      !.key = k]
    /\ UNCHANGED <<now, rc, disk, mutation_lock, putter, reader, must_exit,
                   write_nodes, data_dir, scan, holders>>

\* A resync_iter that pops an entry that is not due and does not put it back.
IterNotDue_dropping_entry ==
    /\ worker.pc = "loop"
    /\ ~must_exit
    /\ DOMAIN resync_queue # {}
    /\ LET k == min_key(resync_queue) IN
          /\ now < key_time(k)
          /\ resync_queue' = tree_remove(resync_queue, k)
          /\ worker' = [worker EXCEPT !.pc = "park_timed", !.key = k]
    /\ UNCHANGED <<now, rc, disk, mutation_lock, putter, reader, must_exit,
                   write_nodes, data_dir, scan, holders>>

\* resync_iter: pop_min() gives an entry that is not due; it is put back
IterNotDue ==
    /\ worker.pc = "loop"
    /\ ~must_exit
    /\ DOMAIN resync_queue # {}
    /\ LET k == min_key(resync_queue) IN
          /\ now < key_time(k)
          /\ resync_queue' = tree_insert(tree_remove(resync_queue, k), k, resync_queue[k])
          /\ worker' = [worker EXCEPT !.pc = "park_timed", !.key = k]
    /\ UNCHANGED <<now, rc, disk, mutation_lock, putter, reader, must_exit,
                   write_nodes, data_dir, scan, holders>>

\* resync_iter: select! polls resync_notify.notified(): the worker is a waiter
Park ==
    /\ worker.pc \in {"park_empty", "park_timed"}
    /\ worker' = [worker EXCEPT !.pc = IF @ = "park_empty" THEN "parked_empty"
                                                             ELSE "parked_timed"]
    /\ UNCHANGED <<now, rc, resync_queue, disk, mutation_lock, putter, reader,
                   must_exit, write_nodes, data_dir, scan, holders>>

\* resync_iter: the sleep of the select! ends
WakeTimer ==
    /\ worker.pc = "parked_timed"
    /\ now >= key_time(worker.key)
    /\ worker' = iter_idle(worker)
    /\ UNCHANGED <<now, rc, resync_queue, disk, mutation_lock, putter, reader,
                   must_exit, write_nodes, data_dir, scan, holders>>

\* A select! without the must_exit.changed() branch.
WakeExit_never == FALSE /\ UNCHANGED vars

\* resync_iter: must_exit.changed() of the select!
WakeExit ==
    /\ worker.pc \in {"parked_empty", "parked_timed"}
    /\ must_exit
    /\ worker' = iter_idle(worker)
    /\ UNCHANGED <<now, rc, resync_queue, disk, mutation_lock, putter, reader,
                   must_exit, write_nodes, data_dir, scan, holders>>

\* A resync_iter that lets a failed hash go.
IterFinish_dropping_failure ==
    /\ worker.pc = "rb_done"
    /\ worker' = [IdleWorker EXCEPT !.pc = "iter_ret", !.iter = "Ok(true)"]
    /\ UNCHANGED <<now, rc, resync_queue, disk, mutation_lock, putter, reader,
                   must_exit, write_nodes, data_dir, scan, holders>>

\* resync_iter: resync_block has returned; an error re-enqueues the hash, and
\* Ok(true) goes to resync_loop either way
IterFinish ==
    /\ worker.pc = "rb_done"
    /\ resync_queue' = IF worker.res = "Err"
                       THEN put_to_resync(resync_queue, worker.hash, RESYNC_RETRY_TIMEOUT)
                       ELSE resync_queue
    /\ worker' = [IdleWorker EXCEPT !.pc = "iter_ret", !.iter = "Ok(true)"]
    /\ UNCHANGED <<now, rc, disk, mutation_lock, putter, reader, must_exit,
                   write_nodes, data_dir, scan, holders>>

\* resync_loop: the match on what resync_iter returned, tranquilize or reset,
\* and back to the test of the while
LoopMatch ==
    /\ worker.pc = "iter_ret"
    /\ worker' = IdleWorker
    /\ UNCHANGED <<now, rc, resync_queue, disk, mutation_lock, putter, reader,
                   must_exit, write_nodes, data_dir, scan, holders>>

\* ------------------------------------------------------------ resync_block

\* What a peer answers to NeedBlockQuery: NeedBlockReply(true), NeedBlockReply(false),
\* an error or a timeout, or a message of another variant.
Replies == {"need", "noneed", "fail", "other"}
AnswerReplies == {"need", "noneed"}

\* A peer that holds the block does not answer that it needs it.
peer_replies(h, who, replies) ==
    {r \in [who -> replies] : \A n \in who : r[n] = "need" => n \notin holders[h]}

rb_return(res) == [worker EXCEPT !.pc = "rb_done", !.res = res]

\* check_block_status under the lock: exists = needed, nothing to do
RbNothing ==
    /\ worker.pc = "rb_check"
    /\ mutation_lock = "free"
    /\ ~is_unneeded(check_block_status(worker.hash))
    /\ ~is_missing(check_block_status(worker.hash))
    /\ worker' = [rb_return("Ok") EXCEPT !.status = check_block_status(worker.hash)]
    /\ UNCHANGED <<now, rc, resync_queue, disk, mutation_lock, putter, reader,
                   must_exit, write_nodes, data_dir, scan, holders>>

\* exists && !needed, and who.len() < write_quorum()
RbNoQuorum ==
    /\ worker.pc = "rb_check"
    /\ mutation_lock = "free"
    /\ is_unneeded(check_block_status(worker.hash))
    /\ quorum_missing(write_nodes)
    /\ worker' = [rb_return("Err") EXCEPT !.status = check_block_status(worker.hash)]
    /\ UNCHANGED <<now, rc, resync_queue, disk, mutation_lock, putter, reader,
                   must_exit, write_nodes, data_dir, scan, holders>>

\* An offload that keeps the guard of check_block_status while it queries.
RbOffload_keeping_lock ==
    /\ worker.pc = "rb_check"
    /\ mutation_lock = "free"
    /\ is_unneeded(check_block_status(worker.hash))
    /\ ~quorum_missing(write_nodes)
    /\ mutation_lock' = "worker"
    /\ worker' = [worker EXCEPT !.pc = "rb_query", !.who = write_nodes \ {Self},
                                !.sent = @ \cup {"NeedBlockQuery"},
                                !.status = check_block_status(worker.hash)]
    /\ UNCHANGED <<now, rc, resync_queue, disk, putter, reader,
                   must_exit, write_nodes, data_dir, scan, holders>>

\* exists && !needed: NeedBlockQuery goes to every node of who
RbOffload ==
    /\ worker.pc = "rb_check"
    /\ mutation_lock = "free"
    /\ is_unneeded(check_block_status(worker.hash))
    /\ ~quorum_missing(write_nodes)
    /\ worker' = [worker EXCEPT !.pc = "rb_query", !.who = write_nodes \ {Self},
                                !.sent = @ \cup {"NeedBlockQuery"},
                                !.status = check_block_status(worker.hash)]
    /\ UNCHANGED <<now, rc, resync_queue, disk, mutation_lock, putter, reader,
                   must_exit, write_nodes, data_dir, scan, holders>>

\* needed && !exists: rpc_get_block
RbFetch ==
    /\ worker.pc = "rb_check"
    /\ mutation_lock = "free"
    /\ is_missing(check_block_status(worker.hash))
    /\ worker' = [worker EXCEPT !.pc = "rb_get", !.sent = @ \cup {"GetBlock"},
                                !.status = check_block_status(worker.hash)]
    /\ UNCHANGED <<now, rc, resync_queue, disk, mutation_lock, putter, reader,
                   must_exit, write_nodes, data_dir, scan, holders>>

\* A loop over who_needs_resps that skips the peers that did not answer.
collect_need_nodes_skipping_failures(w, resps) ==
    LET nn == {n \in w.who : resps[n] = "need"} IN
    [w EXCEPT !.pc = IF nn = {} THEN "rb_delete" ELSE "rb_read",
              !.resps = resps, !.need_nodes = nn]

\* The loop over who_needs_resps: an error or another variant returns Err,
\* NeedBlockReply(true) adds the node to need_nodes.
collect_need_nodes(w, resps) ==
    IF \E n \in w.who : resps[n] \in {"fail", "other"}
    THEN [w EXCEPT !.pc = "rb_done", !.res = "Err", !.resps = resps]
    ELSE LET nn == {n \in w.who : resps[n] = "need"} IN
         [w EXCEPT !.pc = IF nn = {} THEN "rb_delete" ELSE "rb_read",
                   !.resps = resps, !.need_nodes = nn]

\* join_all(who_needs_fut) has the answers
RbReplies(resps) ==
    /\ worker.pc = "rb_query"
    /\ worker' = collect_need_nodes(worker, resps)
    /\ UNCHANGED <<now, rc, resync_queue, disk, mutation_lock, putter, reader,
                   must_exit, write_nodes, data_dir, scan, holders>>

\* read_block of the offload: the file cannot be opened
RbReadMissing ==
    /\ worker.pc = "rb_read"
    /\ ~exists(worker.hash)
    /\ resync_queue' = put_to_resync(resync_queue, worker.hash, 0)
    /\ worker' = rb_return("Err")
    /\ UNCHANGED <<now, rc, disk, mutation_lock, putter, reader, must_exit,
                   write_nodes, data_dir, scan, holders>>

\* read_block of the offload: the file is read and its digest compared
RbRead ==
    /\ worker.pc = "rb_read"
    /\ exists(worker.hash)
    /\ worker' = IF digest_differs(worker.hash, block_file[worker.hash])
                 THEN [worker EXCEPT !.pc = "rb_corrupted",
                                     !.data = block_file[worker.hash]]
                 ELSE [worker EXCEPT !.pc = "rb_put",
                                     !.data = block_file[worker.hash],
                                     !.sent = @ \cup {"PutBlock"}]
    /\ UNCHANGED <<now, rc, resync_queue, disk, mutation_lock, putter, reader,
                   must_exit, write_nodes, data_dir, scan, holders>>

\* move_block_to_corrupted under the lock; rename fails when the path is gone
RbCorrupted ==
    /\ worker.pc = "rb_corrupted"
    /\ mutation_lock = "free"
    /\ IF exists(worker.hash)
       THEN /\ rename_to_corrupted(worker.hash)
            /\ resync_queue' = put_to_resync(resync_queue, worker.hash, 0)
       ELSE UNCHANGED <<disk, resync_queue>>
    /\ worker' = rb_return("Err")
    /\ UNCHANGED <<now, rc, mutation_lock, putter, reader, must_exit,
                   write_nodes, data_dir, scan, holders>>

\* try_call_many(PutBlock) with quorum need_nodes.len(): got stored the block
RbPut(got) ==
    /\ worker.pc = "rb_put"
    /\ holders' = [holders EXCEPT ![worker.hash] = @ \cup got]
    /\ worker' = IF got = worker.need_nodes
                 THEN [worker EXCEPT !.pc = "rb_delete"]
                 ELSE rb_return("Err")
    /\ UNCHANGED <<now, rc, resync_queue, disk, mutation_lock, putter, reader,
                   must_exit, write_nodes, data_dir, scan>>

\* delete_if_unneeded: check_block_status under the lock
RbDeleteCheck ==
    /\ worker.pc = "rb_delete"
    /\ mutation_lock = "free"
    /\ IF is_unneeded(check_block_status(worker.hash))
       THEN /\ worker' = [worker EXCEPT !.pc = "rb_unlink",
                                        !.status = check_block_status(worker.hash)]
            /\ mutation_lock' = "worker"
       ELSE /\ worker' = [rb_return("Ok") EXCEPT
                              !.status = check_block_status(worker.hash)]
            /\ UNCHANGED mutation_lock
    /\ UNCHANGED <<now, rc, resync_queue, disk, putter, reader, must_exit,
                   write_nodes, data_dir, scan, holders>>

\* delete_if_unneeded: fs::remove_file(path), then the lock is released
RbUnlink ==
    /\ worker.pc = "rb_unlink"
    /\ remove_file(worker.hash)
    /\ mutation_lock' = "free"
    /\ worker' = rb_return("Ok")
    /\ UNCHANGED <<now, rc, resync_queue, putter, reader, must_exit,
                   write_nodes, data_dir, scan, holders>>

\* rpc_get_block: no node holds the block
RbGetNone ==
    /\ worker.pc = "rb_get"
    /\ holders[worker.hash] = {}
    /\ worker' = rb_return("Err")
    /\ UNCHANGED <<now, rc, resync_queue, disk, mutation_lock, putter, reader,
                   must_exit, write_nodes, data_dir, scan, holders>>

\* rpc_get_block: the holders do not answer within BLOCK_RW_TIMEOUT
RbGetTimeout ==
    /\ worker.pc = "rb_get"
    /\ holders[worker.hash] # {}
    /\ worker' = rb_return("Err")
    /\ UNCHANGED <<now, rc, resync_queue, disk, mutation_lock, putter, reader,
                   must_exit, write_nodes, data_dir, scan, holders>>

\* rpc_get_block: a holder answers PutBlock(msg); its read_block checked msg.data
RbGet(data) ==
    /\ worker.pc = "rb_get"
    /\ holders[worker.hash] # {}
    /\ ~digest_differs(worker.hash, data)
    /\ worker' = [worker EXCEPT !.pc = "wb_start", !.data = data]
    /\ UNCHANGED <<now, rc, resync_queue, disk, mutation_lock, putter, reader,
                   must_exit, write_nodes, data_dir, scan, holders>>

\* write_block of the fetch: the lock, create_dir_all, metadata(path), File::create
WorkerWriteStart ==
    /\ worker.pc = "wb_start"
    /\ mutation_lock = "free"
    /\ IF exists(worker.hash)
       THEN /\ worker' = rb_return("Ok")
            /\ UNCHANGED <<disk, mutation_lock>>
       ELSE /\ write_create(worker.hash)
            /\ mutation_lock' = "worker"
            /\ worker' = [worker EXCEPT !.pc = "wb_write"]
    /\ UNCHANGED <<now, rc, resync_queue, putter, reader, must_exit,
                   write_nodes, data_dir, scan, holders>>

WorkerWriteAll ==
    /\ worker.pc = "wb_write"
    /\ ~write_all_done(worker.hash, worker.data)
    /\ write_all_step(worker.hash, worker.data)
    /\ UNCHANGED <<now, rc, resync_queue, mutation_lock, worker, putter, reader,
                   must_exit, write_nodes, data_dir, scan, holders>>

WorkerWriteRename ==
    /\ worker.pc = "wb_write"
    /\ write_all_done(worker.hash, worker.data)
    /\ write_rename(worker.hash)
    /\ mutation_lock' = "free"
    /\ worker' = rb_return("Ok")
    /\ UNCHANGED <<now, rc, resync_queue, putter, reader, must_exit,
                   write_nodes, data_dir, scan, holders>>

\* ------------------------------------------------ handle(PutBlock): write_block

\* A write_block that does not look for an existing file before it writes.
PutBlock_without_metadata_check(h, data) ==
    /\ putter.pc = "idle"
    /\ mutation_lock = "free"
    /\ write_create(h)
    /\ mutation_lock' = "putter"
    /\ putter' = [pc |-> "wb_write", hash |-> h, data |-> data, ret |-> "none"]
    /\ UNCHANGED <<now, rc, resync_queue, worker, reader, must_exit,
                   write_nodes, data_dir, scan, holders>>

\* A PutBlock(hash, data) arrives; write_block takes the lock, finds the path
\* present and returns Ok, or creates the .tmp sibling.
PutBlock(h, data) ==
    /\ putter.pc = "idle"
    /\ mutation_lock = "free"
    /\ IF exists(h)
       THEN /\ putter' = [IdlePutter EXCEPT !.pc = "ret", !.hash = h, !.ret = "Ok"]
            /\ UNCHANGED <<disk, mutation_lock>>
       ELSE /\ write_create(h)
            /\ mutation_lock' = "putter"
            /\ putter' = [pc |-> "wb_write", hash |-> h, data |-> data,
                          ret |-> "none"]
    /\ UNCHANGED <<now, rc, resync_queue, worker, reader, must_exit,
                   write_nodes, data_dir, scan, holders>>

PutterWriteAll ==
    /\ putter.pc = "wb_write"
    /\ ~write_all_done(putter.hash, putter.data)
    /\ write_all_step(putter.hash, putter.data)
    /\ UNCHANGED <<now, rc, resync_queue, mutation_lock, worker, putter, reader,
                   must_exit, write_nodes, data_dir, scan, holders>>

PutterWriteRename ==
    /\ putter.pc = "wb_write"
    /\ write_all_done(putter.hash, putter.data)
    /\ write_rename(putter.hash)
    /\ mutation_lock' = "free"
    /\ putter' = [IdlePutter EXCEPT !.pc = "ret", !.hash = putter.hash, !.ret = "Ok"]
    /\ UNCHANGED <<now, rc, resync_queue, worker, reader, must_exit,
                   write_nodes, data_dir, scan, holders>>

\* handle(PutBlock) has answered its caller
PutReturn ==
    /\ putter.pc = "ret"
    /\ putter' = IdlePutter
    /\ UNCHANGED <<now, rc, resync_queue, disk, mutation_lock, worker, reader,
                   must_exit, write_nodes, data_dir, scan, holders>>

\* ------------------------------------- handle(NeedBlockQuery), other variants

\* A need_block that answers from the refcount alone.
need_block_ignoring_file(h) == check_block_status(h).needed

\* need_block: check_block_status under the lock, then needed && !exists
need_block(h) == check_block_status(h).needed /\ ~check_block_status(h).exists

\* The variants of BlockRpc that handle does not match: Ok, NeedBlockReply(bool)
OtherVariants == {"Ok", "NeedBlockReply(true)", "NeedBlockReply(false)"}

\* handle(NeedBlockQuery(h)): need_block(h) mapped into NeedBlockReply
HandleNeedBlockQuery(h) ==
    /\ putter.pc = "idle"
    /\ mutation_lock = "free"
    /\ putter' = [IdlePutter EXCEPT !.pc = "ret", !.hash = h,
                                    !.ret = IF need_block(h)
                                            THEN "NeedBlockReply(true)"
                                            ELSE "NeedBlockReply(false)"]
    /\ UNCHANGED <<now, rc, resync_queue, disk, mutation_lock, worker, reader,
                   must_exit, write_nodes, data_dir, scan, holders>>

\* handle(message) for any other variant: Err(BadRpc)
HandleOther(message) ==
    /\ putter.pc = "idle"
    /\ message \in OtherVariants
    /\ putter' = [IdlePutter EXCEPT !.pc = "ret", !.ret = "BadRpc"]
    /\ UNCHANGED <<now, rc, resync_queue, disk, mutation_lock, worker, reader,
                   must_exit, write_nodes, data_dir, scan, holders>>

\* ------------------------------------------------------------- read_block

\* read_block: File::open fails; the hash is put to resync
ReadMissing(h) ==
    /\ reader.pc = "idle"
    /\ ~exists(h)
    /\ resync_queue' = put_to_resync(resync_queue, h, 0)
    /\ worker' = notify_waiters(worker)
    /\ reader' = [pc |-> "ret", hash |-> h, data |-> NoFile, ret |-> "NotFound"]
    /\ UNCHANGED <<now, rc, disk, mutation_lock, putter, must_exit,
                   write_nodes, data_dir, scan, holders>>

\* read_block: the file is opened and read to its end, the digest compared
ReadBlock(h) ==
    /\ reader.pc = "idle"
    /\ exists(h)
    /\ reader' = IF digest_differs(h, block_file[h])
                 THEN [pc |-> "corrupted", hash |-> h, data |-> block_file[h],
                       ret |-> "none"]
                 ELSE [pc |-> "ret", hash |-> h, data |-> block_file[h],
                       ret |-> "Ok"]
    /\ UNCHANGED <<now, rc, resync_queue, disk, mutation_lock, worker, putter,
                   must_exit, write_nodes, data_dir, scan, holders>>

\* read_block: move_block_to_corrupted under the lock, then Err(CorruptData);
\* the rename fails when the path is gone, and its error is returned instead
ReadCorrupted ==
    /\ reader.pc = "corrupted"
    /\ mutation_lock = "free"
    /\ IF exists(reader.hash)
       THEN /\ rename_to_corrupted(reader.hash)
            /\ resync_queue' = put_to_resync(resync_queue, reader.hash, 0)
            /\ worker' = notify_waiters(worker)
            /\ reader' = [reader EXCEPT !.pc = "ret", !.ret = "CorruptData"]
       ELSE /\ reader' = [reader EXCEPT !.pc = "ret", !.ret = "IoError"]
            /\ UNCHANGED <<disk, resync_queue, worker>>
    /\ UNCHANGED <<now, rc, mutation_lock, putter, must_exit, write_nodes, data_dir, scan, holders>>

\* read_block has returned to its caller
ReadReturn ==
    /\ reader.pc = "ret"
    /\ reader' = IdleReader
    /\ UNCHANGED <<now, rc, resync_queue, disk, mutation_lock, worker, putter,
                   must_exit, write_nodes, data_dir, scan, holders>>

\* ------------------------------------------------- for_each_file, the paths

\* A file name is a sequence of characters.
LowerHex == <<"0", "1", "2", "3", "4", "5", "6", "7", "8", "9",
              "a", "b", "c", "d", "e", "f">>
UpperHex == <<"0", "1", "2", "3", "4", "5", "6", "7", "8", "9",
              "A", "B", "C", "D", "E", "F">>

\* The result of a hex::decode that fails.
FromHexError == <<-1>>

\* hex::decode takes the digits of either case
hex_val(c) == CHOOSE v \in 0..15 : LowerHex[v + 1] = c \/ UpperHex[v + 1] = c

\* A decoder that takes lowercase digits only.
hex_decode_lowercase_only(name) ==
    IF \/ Len(name) % 2 = 1
       \/ \E i \in 1..Len(name) : \A v \in 1..16 : LowerHex[v] # name[i]
    THEN FromHexError
    ELSE [i \in 1..(Len(name) \div 2) |->
             16 * hex_val(name[2 * i - 1]) + hex_val(name[2 * i])]

\* hex::decode(&name): an odd length or a character that is no digit is an error
hex_decode(name) ==
    IF \/ Len(name) % 2 = 1
       \/ \E i \in 1..Len(name) :
             \A v \in 1..16 : LowerHex[v] # name[i] /\ UpperHex[v] # name[i]
    THEN FromHexError
    ELSE [i \in 1..(Len(name) \div 2) |->
             16 * hex_val(name[2 * i - 1]) + hex_val(name[2 * i])]

\* hex::encode: two lowercase digits for each byte
hex_encode(bytes) ==
    [i \in 1..(2 * Len(bytes)) |->
        IF i % 2 = 1 THEN LowerHex[(bytes[(i + 1) \div 2] \div 16) + 1]
                     ELSE LowerHex[(bytes[i \div 2] % 16) + 1]]

\* block_dir: data_dir / hex of the first byte / hex of the second byte
block_dir(h) == <<hex_encode(SubSeq(h, 1, 1)), hex_encode(SubSeq(h, 2, 2))>>

\* block_path: block_dir / hex of the whole hash
block_path(h) == Append(block_dir(h), hex_encode(h))

\* fs::read_dir(path): the entries right below path
read_dir(tree, path) ==
    {e \in tree : /\ Len(e.path) = Len(path) + 1
                  /\ SubSeq(e.path, 1, Len(path)) = path}

\* for_each_file_rec: a directory with a name of two hex digits is walked in
\* turn; else a name of the length of a hash in hex that decodes is handed to
\* the callback; the result is the set of the calls made
RECURSIVE for_each_file_rec(_, _)
for_each_file_rec(tree, path) ==
    UNION { LET name == e.path[Len(e.path)] IN
            IF Len(name) = 2 /\ hex_decode(name) # FromHexError /\ e.type = "dir"
            THEN for_each_file_rec(tree, e.path)
            ELSE IF Len(name) = 2 * HashLen /\ hex_decode(name) # FromHexError
                 THEN {[at |-> e.path, hash |-> hex_decode(name)]}
                 ELSE {}
          : e \in read_dir(tree, path) }

\* for_each_file from data_dir, for a caller such as repair_data_store or
\* scrub_data_store; with must_exit set the loop breaks at the first entry
ForEachFile ==
    /\ scan.pc = "idle"
    /\ scan' = [pc |-> "done",
                found |-> IF must_exit THEN {} ELSE for_each_file_rec(data_dir, <<>>)]
    /\ UNCHANGED <<now, rc, resync_queue, disk, mutation_lock, worker, putter,
                   reader, must_exit, write_nodes, holders, data_dir>>

\* for_each_file has returned to its caller
ScanReturn ==
    /\ scan.pc = "done"
    /\ scan' = IdleScan
    /\ UNCHANGED <<now, rc, resync_queue, disk, mutation_lock, worker, putter,
                   reader, must_exit, write_nodes, holders, data_dir>>

\* ------------------------------------------------------------ specification

\* The hash the concurrent tasks work on: the digest of the longer block.
TheHash == blake2sum(<<104, 105>>)

QueueRoom(n) == Cardinality(DOMAIN resync_queue) < n

ClockRoom(t) == DOMAIN resync_queue # {} /\ key_time(min_key(resync_queue)) <= t

\* resync_loop, resync_iter and resync_block with no shutdown signal.
WorkerStep ==
    \/ IterEmpty \/ IterDue \/ IterNotDue \/ Park \/ IterFinish \/ LoopMatch
    \/ RbNothing \/ RbNoQuorum \/ RbOffload \/ RbFetch
    \/ \E resps \in peer_replies(worker.hash, worker.who, Replies) : RbReplies(resps)
    \/ RbRead \/ RbCorrupted
    \/ \E got \in SUBSET worker.need_nodes : RbPut(got)
    \/ RbDeleteCheck \/ RbUnlink
    \/ RbGetNone \/ RbGetTimeout
    \/ \E data \in Blocks : RbGet(data)
    \/ WorkerWriteStart \/ WorkerWriteAll \/ WorkerWriteRename

\* The callers of the reference counter and the PutBlock handler, on one hash.
Callers ==
    \/ get_block_rc(TheHash) < MaxRc /\ QueueRoom(MaxQueue) /\ block_incref(TheHash)
    \/ QueueRoom(MaxQueue) /\ block_decref(TheHash)
    \/ \E data \in Blocks : PutBlock(TheHash, data)
    \/ PutterWriteAll \/ PutterWriteRename \/ PutReturn
    \/ \E p \in Peers : PeerStore(TheHash, p)

\* The worker beside refcount changes, PutBlock handlers and the repair
\* procedure, with the clock.
Next ==
    \/ WorkerStep
    \/ WakeTimer
    \/ Callers
    \/ QueueRoom(MaxQueue) /\ repair_data_store(TheHash)
    \/ ClockRoom(MaxTime) /\ Tick

Spec == Init /\ [][Next]_vars

\* read_block callers beside the worker, the refcount callers and PutBlock
\* handlers, within one instant of the clock.
ReadNext ==
    \/ WorkerStep
    \/ RbReadMissing
    \/ Callers
    \/ QueueRoom(MaxQueue) /\ ReadMissing(TheHash)
    \/ ReadBlock(TheHash) \/ ReadCorrupted \/ ReadReturn

ReadSpec == Init /\ [][ReadNext]_vars

\* The endpoint handler beside the worker: PutBlock, NeedBlockQuery and the
\* unmatched variants in one handler task, GetBlock in another, with the
\* refcount callers, within one instant of the clock.
HandleNext ==
    \/ ReadNext
    \/ HandleNeedBlockQuery(TheHash)
    \/ \E message \in OtherVariants : HandleOther(message)

HandleSpec == Init /\ [][HandleNext]_vars

\* The reference counter and the resync queue on every hash of the model, on a
\* node that holds no file and whose peers hold none: resync_block finds
\* nothing to do, or fails to fetch and the hash is pushed back.
QueueNext ==
    \/ IterEmpty \/ IterDue \/ IterNotDue \/ Park \/ WakeTimer \/ IterFinish
    \/ LoopMatch
    \/ RbNothing \/ RbFetch \/ RbGetNone
    \/ \E h \in Hashes :
          \/ get_block_rc(h) < QMaxRc /\ QueueRoom(QMaxQueue) /\ block_incref(h)
          \/ QueueRoom(QMaxQueue) /\ block_decref(h)
          \/ QueueRoom(QMaxQueue) /\ repair_data_store(h)
    \/ ClockRoom(MaxTime) /\ Tick

\* The queue and the counters do not look at the layout: one is enough.
QueueInit == Init /\ write_nodes = Nodes

QueueSpec == QueueInit /\ [][QueueNext]_vars

\* The queue and its worker with the clock, pushes on every hash and the
\* shutdown signal: the three ways out of the select! of a task that is not due.
DueNext ==
    \/ QueueNext
    \/ Shutdown \/ WakeExit \/ LoopExit

DueSpec == QueueInit /\ [][DueNext]_vars

\* ------------------------------------------------------ the directory walk

\* The names the walk may meet: the two directories and the file of the block
\* of TheHash, the same in uppercase, a name of two characters that is no hex,
\* a name of the length of a hash that is no hex, the .tmp and .corrupted
\* siblings.
Upper(name) ==
    [i \in 1..Len(name) |->
        IF \E v \in 1..16 : LowerHex[v] = name[i]
        THEN UpperHex[CHOOSE v \in 1..16 : LowerHex[v] = name[i]]
        ELSE name[i]]

Dir1 == block_dir(TheHash)[1]
Dir2 == block_dir(TheHash)[2]
HashName == hex_encode(TheHash)
NoHexDir == <<"z", "z">>
NoHexName == [i \in 1..(2 * HashLen) |-> "z"]
TmpName == HashName \o <<".", "t", "m", "p">>
CorruptedName == HashName \o <<".", "c", "o", "r", "r", "u", "p", "t", "e", "d">>

\* The entries a data directory of the model is made of.
Entries ==
    { [path |-> <<Dir1>>, type |-> "dir"],
      [path |-> <<Upper(Dir1)>>, type |-> "dir"],
      [path |-> <<NoHexDir>>, type |-> "dir"],
      [path |-> <<HashName>>, type |-> "file"],
      [path |-> <<Dir1, Dir2>>, type |-> "dir"],
      [path |-> <<Dir1, Dir2>>, type |-> "symlink"],
      [path |-> <<Dir1, HashName>>, type |-> "file"],
      [path |-> <<Upper(Dir1), HashName>>, type |-> "file"],
      [path |-> <<NoHexDir, HashName>>, type |-> "file"],
      [path |-> <<Dir1, Dir2, HashName>>, type |-> "file"],
      [path |-> <<Dir1, Dir2, HashName>>, type |-> "dir"],
      [path |-> <<Dir1, Dir2, Upper(HashName)>>, type |-> "file"],
      [path |-> <<Dir1, Dir2, NoHexName>>, type |-> "file"],
      [path |-> <<Dir1, Dir2, TmpName>>, type |-> "file"],
      [path |-> <<Dir1, Dir2, CorruptedName>>, type |-> "file"],
      [path |-> <<Dir1, Dir2, Dir1>>, type |-> "dir"],
      [path |-> <<Dir1, Dir2, Dir1, HashName>>, type |-> "file"] }

\* A directory tree: one entry for a path, and every entry lies in a directory.
IsTree(tree) ==
    \A e \in tree :
        /\ \A o \in tree : o.path = e.path => o = e
        /\ Len(e.path) > 1 =>
              [path |-> SubSeq(e.path, 1, Len(e.path) - 1), type |-> "dir"] \in tree

\* An idle node whose data directory holds any tree made of Entries.
WalkInit ==
    /\ now = 0
    /\ rc = <<>>
    /\ resync_queue = <<>>
    /\ block_file = [h \in Hashes |-> NoFile]
    /\ tmp_file = [h \in Hashes |-> NoFile]
    /\ corrupted_file = [h \in Hashes |-> NoFile]
    /\ mutation_lock = "free"
    /\ worker = IdleWorker
    /\ putter = IdlePutter
    /\ reader = IdleReader
    /\ must_exit = FALSE
    /\ write_nodes = Nodes
    /\ holders = [h \in Hashes |-> {}]
    /\ data_dir \in {tree \in SUBSET Entries : IsTree(tree)}
    /\ scan = IdleScan

\* The walk is run, before or after the shutdown signal.
WalkNext == ForEachFile \/ ScanReturn \/ Shutdown

WalkSpec == WalkInit /\ [][WalkNext]_vars

\* ------------------------------------------------- resync_block called alone

\* The sets of peers that may hold the block at the start.
HolderSets == {{}, {1}, {1, 2}}

\* Any combination of file presence (absent, the block, other bytes) and
\* refcount (no entry, one reference) for one hash, on an idle node.
ConvInit ==
    /\ now = 0
    /\ rc \in {<<>>, [h \in {TheHash} |-> u64_to_be_bytes(1)]}
    /\ resync_queue = <<>>
    /\ \E content \in Blocks \cup {NoFile} :
          block_file = [h \in Hashes |-> IF h = TheHash THEN content ELSE NoFile]
    /\ tmp_file = [h \in Hashes |-> NoFile]
    /\ corrupted_file = [h \in Hashes |-> NoFile]
    /\ mutation_lock = "free"
    /\ worker = IdleWorker
    /\ putter = IdlePutter
    /\ reader = IdleReader
    /\ must_exit = FALSE
    /\ data_dir = {}
    /\ scan = IdleScan
    /\ write_nodes \in Layouts
    /\ \E hs \in HolderSets :
          holders = [h \in Hashes |-> IF h = TheHash THEN hs ELSE {}]

\* resync_block(hash) is called once more.
CallResync ==
    /\ worker.pc = "loop"
    /\ worker' = [IdleWorker EXCEPT !.pc = "rb_check", !.hash = TheHash]
    /\ UNCHANGED <<now, rc, resync_queue, disk, mutation_lock, putter, reader,
                   must_exit, write_nodes, data_dir, scan, holders>>

\* resync_block called again and again, every peer reachable and answering:
\* NeedBlockQuery gets its replies, PutBlock reaches every node of need_nodes,
\* GetBlock is answered by a holder when there is one.
ConvNext ==
    \/ CallResync \/ IterFinish \/ LoopMatch
    \/ RbNothing \/ RbNoQuorum \/ RbOffload \/ RbFetch
    \/ \E resps \in peer_replies(worker.hash, worker.who, AnswerReplies) : RbReplies(resps)
    \/ RbRead \/ RbCorrupted
    \/ RbPut(worker.need_nodes)
    \/ RbDeleteCheck \/ RbUnlink
    \/ RbGetNone
    \/ \E data \in Blocks : RbGet(data)
    \/ WorkerWriteStart \/ WorkerWriteAll \/ WorkerWriteRename

ConvSpec == ConvInit /\ [][ConvNext]_vars /\ WF_vars(ConvNext)

\* ------------------------------------------------------- the worker stopping

\* The steps of the worker's task, shutdown branches included.
WorkerTask == WorkerStep \/ WakeExit \/ LoopExit

\* The steps of the PutBlock handler once it holds the lock.
PutterTask == PutterWriteAll \/ PutterWriteRename \/ PutReturn

\* The worker with the shutdown signal raised at any moment, beside the callers
\* that fill the queue and a PutBlock handler that competes for the lock, in
\* the span before the next due time: a worker parked until a due time is woken
\* by a push or by the signal.
ShutNext ==
    \/ WorkerTask
    \/ Shutdown
    \/ get_block_rc(TheHash) < MaxRc /\ QueueRoom(MaxQueue) /\ block_incref(TheHash)
    \/ QueueRoom(MaxQueue) /\ repair_data_store(TheHash)
    \/ \E data \in Blocks : PutBlock(TheHash, data)
    \/ PutterTask

\* The runtime keeps polling the worker's task and the handler's task.
ShutSpec ==
    Init /\ [][ShutNext]_vars /\ WF_vars(WorkerTask) /\ WF_vars(PutterTask)

\* ------------------------------------------------------- fetching on demand

\* A fresh node; at least one peer holds the block of TheHash.
FetchInit ==
    /\ now = 0
    /\ rc = <<>>
    /\ resync_queue = <<>>
    /\ block_file = [h \in Hashes |-> NoFile]
    /\ tmp_file = [h \in Hashes |-> NoFile]
    /\ corrupted_file = [h \in Hashes |-> NoFile]
    /\ mutation_lock = "free"
    /\ worker = IdleWorker
    /\ putter = IdlePutter
    /\ reader = IdleReader
    /\ must_exit = FALSE
    /\ data_dir = {}
    /\ scan = IdleScan
    /\ write_nodes \in Layouts
    /\ \E hs \in HolderSets \ {{}} :
          holders = [h \in Hashes |-> IF h = TheHash THEN hs ELSE {}]

\* The worker's steps on the way to a fetch; the holder answers GetBlock.
FetchTask ==
    \/ IterEmpty \/ IterDue \/ IterNotDue \/ Park \/ WakeTimer \/ IterFinish
    \/ LoopMatch
    \/ RbNothing \/ RbFetch
    \/ \E data \in Blocks : RbGet(data)
    \/ WorkerWriteStart \/ WorkerWriteAll \/ WorkerWriteRename

\* The clock reaches the next due time.
ClockTask == ClockRoom(MaxTime) /\ Tick

\* block_incref and the repair procedure push tasks while the worker runs; no
\* shutdown.
FetchNext ==
    \/ FetchTask
    \/ ClockTask
    \/ get_block_rc(TheHash) < MaxRc /\ QueueRoom(MaxQueue) /\ block_incref(TheHash)
    \/ QueueRoom(MaxQueue) /\ repair_data_store(TheHash)

\* The runtime keeps polling the worker's task, and time passes.
FetchSpec ==
    FetchInit /\ [][FetchNext]_vars /\ WF_vars(FetchTask) /\ WF_vars(ClockTask)

\* -------------------------------------------------------------- properties

\* Two files hold the same bytes.
SameContent(a, b) == a # NoFile /\ b # NoFile /\ a = b

\* The file at block_path(h) disappears in this step.
FileGone(h) == block_file[h] # NoFile /\ block_file'[h] = NoFile

\* The step is the rename of move_block_to_corrupted, by the worker or a reader.
MovedToCorrupted(h) ==
    /\ SameContent(block_file[h], corrupted_file'[h])
    /\ \/ worker.pc = "rb_corrupted" /\ worker.hash = h /\ worker'.pc = "rb_done"
       \/ reader.pc = "corrupted" /\ reader.hash = h /\ reader'.ret = "CorruptData"

\* The step is the remove_file of delete_if_unneeded.
UnlinkStep(h) == FileGone(h) /\ ~MovedToCorrupted(h)

\* C1: a block file is unlinked only by delete_if_unneeded, which holds the
\* mutation lock and has observed exists and refcount 0 under it, in a
\* resync_block whose NeedBlockQuery round has run and in which every node that
\* answered that it needs the block now holds it (need_nodes is empty, or the
\* PutBlock reached all of them); a failed PutBlock ends resync_block with an
\* error and the file in place.
SafeDeletion ==
    [][/\ \A h \in Hashes :
            UnlinkStep(h) =>
               /\ worker.pc = "rb_unlink" /\ worker.hash = h
               /\ mutation_lock = "worker"
               /\ worker.status = [exists |-> TRUE, needed |-> FALSE]
               /\ "NeedBlockQuery" \in worker.sent
               /\ worker.need_nodes \subseteq holders[h]
       /\ (worker.pc = "rb_put" /\ worker'.pc = "rb_done") =>
               /\ worker'.res = "Err"
               /\ block_file' = block_file
      ]_vars

\* C1 witness: delete_if_unneeded has removed the file after an offload that
\* sent the block to a peer.
SafeDeletionWitness ==
    /\ worker.pc = "rb_done" /\ worker.res = "Ok"
    /\ worker.status = [exists |-> TRUE, needed |-> FALSE]
    /\ worker.need_nodes # {}
    /\ "PutBlock" \in worker.sent
    /\ ~exists(worker.hash)

\* C2: the file of h is never unlinked in a state where block_incref(h) has
\* completed and the refcount of h is greater than zero.
NeverDeletesNeeded ==
    [][\A h \in Hashes : UnlinkStep(h) => get_block_rc(h) = 0]_vars

\* A resync task for h is in the queue.
Pending(h) == \E key \in DOMAIN resync_queue : resync_queue[key] = h

\* The worker has popped a task for h and has not finished its resync_block, or
\* has finished it with an error that resync_iter is about to re-enqueue.
Reconciling(h) ==
    /\ worker.hash = h
    /\ worker.pc \in {"rb_check", "rb_query", "rb_read", "rb_put", "rb_corrupted",
                      "rb_delete", "rb_unlink", "rb_get", "wb_start", "wb_write",
                      "rb_done"}
    /\ worker.pc = "rb_done" => worker.res = "Err"

\* C4 as stated: in every reachable state a hash whose file presence differs
\* from (refcount > 0) has a task pending in the resync queue or is being
\* reconciled.
EveryDivergenceScheduled ==
    \A h \in Hashes : exists(h) # needed(h) => Pending(h) \/ Reconciling(h)

\* C4 amended: block_incref from zero, block_decref to zero, quarantine and a
\* failed read enqueue a task, while write_block and delete_if_unneeded do not;
\* so in every reachable state a hash that is needed and whose file is missing
\* has a task pending in the resync queue or is being reconciled.
MissingNeededScheduled ==
    \A h \in Hashes : needed(h) /\ ~exists(h) => Pending(h) \/ Reconciling(h)

\* C4 witness: a block was written and referenced, its file was then lost to
\* quarantine, and the task pushed for it is waiting in the queue.
MissingNeededWitness ==
    \E h \in Hashes :
        /\ needed(h) /\ ~exists(h)
        /\ corrupted_file[h] # NoFile
        /\ Pending(h)
        /\ worker.hash # h

\* C8: when resync_block(h) finds the file present and unneeded and
\* |write_nodes(h)| < write_quorum, it returns an error having sent neither
\* NeedBlockQuery nor PutBlock and leaves the file in place, and resync_iter then
\* pushes h back with due time now + RESYNC_RETRY_TIMEOUT.
OffloadWithoutQuorum ==
    [][/\ ( /\ worker.pc = "rb_check" /\ worker'.pc # "rb_check"
            /\ exists(worker.hash) /\ ~needed(worker.hash)
            /\ Cardinality(write_nodes) < write_quorum )
          => /\ worker'.pc = "rb_done" /\ worker'.res = "Err"
             /\ worker'.sent = {}
             /\ block_file' = block_file
       /\ ( worker.pc = "rb_done" /\ worker.res = "Err" /\ worker'.pc # "rb_done" )
          => LET key == resync_key(now + RESYNC_RETRY_TIMEOUT, worker.hash) IN
             /\ key \in DOMAIN resync_queue'
             /\ resync_queue'[key] = worker.hash
             /\ \A k \in DOMAIN resync_queue : k \in DOMAIN resync_queue'
      ]_vars

\* C8 witness: with a layout below the write quorum, the refused offload has
\* been pushed back and the unneeded file is still there.
OffloadWithoutQuorumWitness ==
    /\ Cardinality(write_nodes) < write_quorum
    /\ worker.pc = "loop"
    /\ \E h \in Hashes :
          /\ exists(h) /\ ~needed(h)
          /\ resync_key(now + RESYNC_RETRY_TIMEOUT, h) \in DOMAIN resync_queue

\* C9 as stated: when the NeedBlockQuery round ends with a peer that did not
\* answer (timeout or RPC error), the offload continues with need_nodes made of
\* the peers that replied true.
FailedPeerOmitted ==
    [][( /\ worker.pc = "rb_query" /\ worker'.pc # "rb_query"
         /\ \A n \in worker.who : worker'.resps[n] # "other" )
       => /\ worker'.pc \in {"rb_read", "rb_delete"}
          /\ worker'.need_nodes = {n \in worker.who : worker'.resps[n] = "need"}
      ]_vars

\* C9 amended: the offload goes on to PutBlock and delete_if_unneeded only when
\* every queried peer answered NeedBlockReply, need_nodes being the peers that
\* replied true; a single peer that fails to answer aborts resync_block with an
\* error, no PutBlock is sent and the file stays.
FailedPeerAborts ==
    /\ worker.pc \in {"rb_read", "rb_put", "rb_delete", "rb_unlink"} =>
          /\ \A n \in worker.who : worker.resps[n] \in AnswerReplies
          /\ worker.need_nodes = {n \in worker.who : worker.resps[n] = "need"}
    /\ ( /\ worker.pc = "rb_done" /\ worker.resps # NoResps
         /\ \E n \in worker.who : worker.resps[n] = "fail" ) =>
          /\ worker.res = "Err"
          /\ "PutBlock" \notin worker.sent
          /\ exists(worker.hash)

\* C9 witness: one peer answered that it needs the block, the other did not
\* answer, and resync_block has ended with an error.
FailedPeerAbortsWitness ==
    /\ worker.pc = "rb_done" /\ worker.res = "Err"
    /\ worker.resps # NoResps
    /\ \E n, m \in worker.who : worker.resps[n] = "fail" /\ worker.resps[m] = "need"
    /\ exists(worker.hash)

\* read_block returns from this step.
ReadReturns == reader.pc # "ret" /\ reader'.pc = "ret"

\* read_block hands out bytes only when their digest is the hash asked for, and
\* never hands out the bytes of a file whose digest differs.
ReadsVerified ==
    /\ (ReadReturns /\ reader'.ret = "Ok") =>
          /\ blake2sum(reader'.data) = reader'.hash
          /\ reader'.data = block_file[reader'.hash]
    /\ \A h \in Hashes :
          ( /\ reader.pc = "idle" /\ reader'.pc # "idle" /\ reader'.hash = h
            /\ exists(h) /\ blake2sum(block_file[h]) # h )
          => reader'.pc = "corrupted"

\* The step is the rename of the bad file of h and the push of its zero-delay task.
Quarantined(h) ==
    /\ reader'.ret = "CorruptData"
    /\ block_file'[h] = NoFile
    /\ SameContent(block_file[h], corrupted_file'[h])
    /\ resync_key(now, h) \in DOMAIN resync_queue'

\* C7 as stated: read_block returns bytes only when their BLAKE2 digest equals
\* h, and a read that found the content not hashing to h fails with
\* CorruptData(h), the file renamed to the .corrupted sibling and a zero-delay
\* resync task for h enqueued.
CorruptReadQuarantines ==
    [][/\ ReadsVerified
       /\ (reader.pc = "corrupted" /\ ReadReturns) => Quarantined(reader.hash)
      ]_vars

\* C7 amended: read_block returns bytes only when their BLAKE2 digest equals h;
\* a read that found the content not hashing to h never returns bytes: if the
\* canonical path still exists once the mutation lock is held it fails with
\* CorruptData(h), the file renamed to the .corrupted sibling and a zero-delay
\* task enqueued; if the path has gone meanwhile it fails with the rename's I/O
\* error, nothing is renamed and nothing is enqueued.
CorruptReadQuarantinesIfPresent ==
    [][/\ ReadsVerified
       /\ (reader.pc = "corrupted" /\ ReadReturns) =>
             IF exists(reader.hash)
             THEN Quarantined(reader.hash)
             ELSE /\ reader'.ret = "IoError"
                  /\ UNCHANGED <<block_file, tmp_file, corrupted_file, resync_queue>>
      ]_vars

\* C7 witness: a read of a file with the wrong content has failed with
\* CorruptData, the canonical path is gone, the .corrupted sibling holds the
\* bytes read and the zero-delay task is in the queue.
CorruptReadWitness ==
    /\ reader.pc = "ret" /\ reader.ret = "CorruptData"
    /\ blake2sum(reader.data) # reader.hash
    /\ ~exists(reader.hash)
    /\ SameContent(reader.data, corrupted_file[reader.hash])
    /\ resync_key(now, reader.hash) \in DOMAIN resync_queue

\* The writer w, holding the mutation lock as `name`, renames the complete .tmp
\* file of h onto the canonical path in this step.
RenamesComplete(w, name, h) ==
    /\ w.pc = "wb_write" /\ w.hash = h
    /\ mutation_lock = name
    /\ SameContent(w.data, tmp_file[h])
    /\ SameContent(w.data, block_file'[h])
    /\ tmp_file'[h] = NoFile

\* C10: the canonical path of a hash either does not exist or holds the complete
\* bytes passed to the write: it comes into existence only through the rename of
\* a .tmp file that holds all the bytes, its content is never changed in place,
\* and a concurrent read_block, which takes no lock, reads nothing or a complete
\* block.
AtomicFileCreation ==
    [][/\ \A h \in Hashes :
            /\ (block_file[h] = NoFile /\ block_file'[h] # NoFile) =>
                  RenamesComplete(putter, "putter", h) \/ RenamesComplete(worker, "worker", h)
            /\ (block_file[h] # NoFile /\ block_file'[h] # NoFile) =>
                  block_file'[h] = block_file[h]
            /\ block_file'[h] = NoFile \/ block_file'[h] \in Blocks
       /\ (reader.pc = "idle" /\ reader'.pc # "idle") =>
            reader'.data = NoFile \/ reader'.data \in Blocks
      ]_vars

\* C10 witness: a PutBlock handler is in the middle of write_all, the .tmp file
\* holds some of the bytes, and a concurrent read_block of the same hash has
\* found no canonical file.
AtomicFileCreationWitness ==
    /\ putter.pc = "wb_write"
    /\ tmp_file[putter.hash] # NoFile
    /\ Len(tmp_file[putter.hash]) >= 1
    /\ Len(tmp_file[putter.hash]) < Len(putter.data)
    /\ ~exists(putter.hash)
    /\ reader.pc = "ret" /\ reader.ret = "NotFound" /\ reader.hash = putter.hash

\* The rc tree holds no counter of zero, and get_block_rc is zero exactly for
\* the hashes without an entry.
RcWellFormed ==
    \A h \in Hashes :
        /\ get_block_rc(h) >= 0
        /\ get_block_rc(h) = 0 <=> h \notin DOMAIN rc
        /\ h \in DOMAIN rc => rc[h] # u64_to_be_bytes(0)

\* This step pushes the task that block_decref pushes for h.
PushesGcTask(h) ==
    LET key == resync_key(now + BLOCK_GC_TIMEOUT, h) IN
    key \notin DOMAIN resync_queue /\ key \in DOMAIN resync_queue'

\* C5: after any interleaving of block_incref and block_decref, get_block_rc(h)
\* is never negative and is zero exactly when the rc tree has no entry for h (no
\* entry with stored value 0 is ever present); every step changes a counter by
\* at most one, and a decref of an absent hash leaves the rc tree unchanged.
RefcountInvariant ==
    [][/\ RcWellFormed /\ RcWellFormed'
       /\ \A h \in Hashes :
            /\ get_block_rc(h)' - get_block_rc(h) \in {-1, 0, 1}
            /\ (PushesGcTask(h) /\ h \notin DOMAIN rc) => rc' = rc
      ]_vars

\* C5 witness: a decref of a hash that was never referenced has run (its task is
\* in the queue, no incref task is), the hash has no entry, and the other hash
\* has been referenced twice.
RefcountWitness ==
    \E h, g \in Hashes :
        /\ now = 0
        /\ h \notin DOMAIN rc
        /\ resync_key(BLOCK_GC_TIMEOUT, h) \in DOMAIN resync_queue
        /\ resync_key(BLOCK_RW_TIMEOUT, h) \notin DOMAIN resync_queue
        /\ get_block_rc(g) = 2

\* The hash part of a resync queue key.
key_hash(key) == SubSeq(key, U64Len + 1, Len(key))

\* Task a comes before task b: earlier due time, or the same due time and the
\* lesser hash in lexicographic order.
TaskBefore(a, b) ==
    \/ key_time(a) < key_time(b)
    \/ key_time(a) = key_time(b) /\ LexLess(key_hash(a), key_hash(b))

\* C6: every pop takes the entry with the smallest (due_time, hash) among the
\* tasks in the queue, ties on due time broken by lexicographic hash order, so a
\* task with an earlier due time is handed out before one with a later due time
\* whatever the order of the pushes; a task handed to resync_block leaves the
\* queue.
QueueOrdering ==
    [][(worker.pc = "loop" /\ worker'.pc \in {"rb_check", "park_timed"}) =>
          LET k == worker'.key IN
          /\ k \in DOMAIN resync_queue
          /\ \A o \in DOMAIN resync_queue \ {k} : TaskBefore(k, o)
          /\ worker'.pc = "rb_check" =>
                /\ k \notin DOMAIN resync_queue'
                /\ worker'.hash = resync_queue[k]
                /\ key_hash(k) = worker'.hash
                /\ key_time(k) <= now
      ]_vars

\* C6 witness: a task has been handed out while a task with the same due time
\* and a greater hash waits in the queue.
QueueOrderingWitness ==
    /\ worker.pc = "rb_check"
    /\ \E o \in DOMAIN resync_queue :
          /\ key_time(o) = key_time(worker.key)
          /\ LexLess(worker.hash, resync_queue[o])

\* The file of the hash is there exactly when the hash is referenced.
Settled == exists(TheHash) <=> needed(TheHash)

\* C3 as stated: from any initial combination of file presence and refcount,
\* with all peers reachable and answering and no further incref or decref,
\* repeated calls of resync_block(h) eventually reach and then stay in a state
\* where the file exists if and only if the refcount is greater than zero.
Convergence == <>[]Settled

\* C3 amended: the same convergence, provided that write_nodes(h) has at least
\* write_quorum nodes when the file is present and unneeded, and that some peer
\* holds the block when it is needed and missing.
ConvergenceWithQuorumAndSource ==
    ( /\ is_unneeded(check_block_status(TheHash)) => Cardinality(write_nodes) >= write_quorum
      /\ is_missing(check_block_status(TheHash)) => holders[TheHash] # {} )
    => <>[]Settled

\* C3 witness: an unneeded file that a peer asked for has been sent and then
\* deleted, and the hash has settled.
ConvergenceWitness ==
    /\ worker.pc = "rb_done" /\ worker.res = "Ok"
    /\ worker.status = [exists |-> TRUE, needed |-> FALSE]
    /\ "PutBlock" \in worker.sent
    /\ Settled /\ ~exists(TheHash)

\* write_block of the PutBlock handler, or of the worker's fetch, starts in this
\* step with the canonical path of its hash present.
PutterFindsFile == putter.pc = "idle" /\ putter'.pc # "idle" /\ exists(putter'.hash)
WorkerFindsFile == worker.pc = "wb_start" /\ worker'.pc # "wb_start" /\ exists(worker.hash)

\* C11: write_block applied twice, by the PutBlock handler and by the worker's
\* fetch in any interleaving, returns Ok each time and leaves one file at the
\* canonical path and no .tmp sibling; a write_block that finds the canonical
\* path present writes and renames nothing and leaves the content as it is.
WriteIdempotence ==
    [][/\ PutterFindsFile =>
             /\ putter'.pc = "ret" /\ putter'.ret = "Ok"
             /\ UNCHANGED <<block_file, tmp_file, corrupted_file>>
       /\ WorkerFindsFile =>
             /\ worker'.pc = "rb_done" /\ worker'.res = "Ok"
             /\ UNCHANGED <<block_file, tmp_file, corrupted_file>>
       /\ (putter.pc = "wb_write" /\ putter'.pc # "wb_write") =>
             /\ putter'.pc = "ret" /\ putter'.ret = "Ok"
             /\ block_file'[putter.hash] # NoFile
             /\ tmp_file'[putter.hash] = NoFile
       /\ (worker.pc = "wb_write" /\ worker'.pc # "wb_write") =>
             /\ worker'.pc = "rb_done" /\ worker'.res = "Ok"
             /\ block_file'[worker.hash] # NoFile
             /\ tmp_file'[worker.hash] = NoFile
       /\ \A h \in Hashes :
             /\ tmp_file'[h] # NoFile =>
                   \/ putter'.pc = "wb_write" /\ putter'.hash = h
                   \/ worker'.pc = "wb_write" /\ worker'.hash = h
             /\ (block_file[h] # NoFile /\ block_file'[h] # NoFile) =>
                   block_file'[h] = block_file[h]
      ]_vars

\* C11 witness: the PutBlock handler and the worker's fetch have both returned
\* Ok from write_block on the same hash; there is one canonical file, written by
\* the handler and found by the worker, and no .tmp sibling.
WriteIdempotenceWitness ==
    /\ putter.pc = "ret" /\ putter.ret = "Ok"
    /\ worker.pc = "rb_done" /\ worker.res = "Ok" /\ "GetBlock" \in worker.sent
    /\ worker.hash = putter.hash
    /\ block_file[putter.hash] # NoFile
    /\ block_file[putter.hash] # worker.data
    /\ tmp_file[putter.hash] = NoFile

\* The worker is inside resync_block (or the write_block of its fetch).
InResyncBlock ==
    worker.pc \in {"rb_check", "rb_query", "rb_read", "rb_put", "rb_corrupted",
                   "rb_delete", "rb_unlink", "rb_get", "wb_start", "wb_write"}

\* C12: once the shutdown signal is set the worker eventually exits
\* resync_loop, from a park on an empty queue, from a park until a due time, or
\* from the middle of a resync_block; it leaves only from the head of the loop,
\* so a resync_block in flight runs to its end and its error is still pushed
\* back, and a worker that is at the head of the loop with the signal set
\* starts no resync_block.
ShutdownExits ==
    /\ [][/\ worker'.pc = "exited" => worker.pc \in {"loop", "exited"}
          /\ (must_exit /\ ~InResyncBlock) => ~InResyncBlock'
          /\ (must_exit /\ InResyncBlock /\ ~InResyncBlock') => worker'.pc = "rb_done"
         ]_vars
    /\ (must_exit ~> worker.pc = "exited")

\* C12 witness: the worker has exited although a task is still in the queue.
ShutdownExitsWitness ==
    /\ must_exit /\ worker.pc = "exited"
    /\ DOMAIN resync_queue # {}

\* The worker is parked in the select! of the empty-queue branch.
ParkedOnEmpty == worker.pc = "parked_empty"

\* C13: with a peer holding the block and no shutdown, block_incref(h) on a
\* node without the file is eventually followed by the file being fetched and
\* written, however the push and its notify interleave with the worker, and the
\* worker never stays parked forever while the queue holds a task.
FetchOnDemand ==
    /\ (needed(TheHash) /\ ~exists(TheHash)) ~> exists(TheHash)
    /\ (ParkedOnEmpty /\ Pending(TheHash)) ~> ~ParkedOnEmpty

\* The worker is inside an RPC of resync_block: the NeedBlockQuery calls, the
\* PutBlock offload, or rpc_get_block.
WaitingOnPeers == worker.pc \in {"rb_query", "rb_put", "rb_get"}

\* C14: the mutation lock is never held across an RPC. While resync_block waits
\* on the NeedBlockQuery calls, on the PutBlock offload or on rpc_get_block the
\* worker does not hold the lock; it holds it, beyond the instant of
\* check_block_status, only in delete_if_unneeded and in the file write that
\* follows the fetch; and a PutBlock or NeedBlockQuery handler of this node
\* that is not already running can take the lock while the worker waits.
LockFreeAcrossRpc ==
    /\ WaitingOnPeers => mutation_lock # "worker"
    /\ mutation_lock = "worker" => worker.pc \in {"rb_unlink", "wb_write"}
    /\ (WaitingOnPeers /\ putter.pc = "idle") =>
          /\ ENABLED HandleNeedBlockQuery(TheHash)
          /\ \A data \in Blocks : ENABLED PutBlock(TheHash, data)

\* The worker waits on rpc_get_block and a PutBlock handler, arrived since,
\* holds the lock and writes.
LockFreeAcrossRpcWitness ==
    /\ worker.pc = "rb_get"
    /\ mutation_lock = "putter"
    /\ putter.pc = "wb_write"

\* The delays put_to_resync is called with.
Delays == {0, BLOCK_RW_TIMEOUT, BLOCK_GC_TIMEOUT, RESYNC_RETRY_TIMEOUT}

\* Some caller of put_to_resync pushes a task in this step.
PushStep == \E h \in Hashes, d \in Delays :
               resync_queue' = put_to_resync(resync_queue, h, d)

\* C15: a task is never processed before its due time. resync_block starts only
\* on the minimum entry and only when now >= its due time; when the minimum
\* entry is due later, the iteration leaves the queue as it was (same key, same
\* value), starts no resync_block, parks, and comes back with Ok(false) only
\* once the due time is reached, a push has notified, or shutdown is signalled.
NeverBeforeDue ==
    [][/\ (worker.pc # "rb_check" /\ worker'.pc = "rb_check")
          => /\ worker'.key = min_key(resync_queue)
             /\ now >= key_time(worker'.key)
       /\ ( /\ worker.pc = "loop" /\ ~must_exit /\ DOMAIN resync_queue # {}
            /\ now < key_time(min_key(resync_queue))
            /\ worker' # worker )
          => /\ worker'.pc = "park_timed"
             /\ worker'.key = min_key(resync_queue)
             /\ worker'.hash = NoHash
             /\ resync_queue' = resync_queue
       /\ (worker.pc = "park_timed" /\ worker' # worker)
          => worker'.pc = "parked_timed" /\ worker'.hash = NoHash
       /\ (worker.pc = "parked_timed" /\ worker' # worker)
          => /\ worker'.pc = "iter_ret" /\ worker'.iter = "Ok(false)"
             /\ \/ now >= key_time(worker.key)
                \/ PushStep
                \/ must_exit
      ]_vars

\* C15 witness: the worker is parked on a task that is still in the queue and
\* not yet due.
NeverBeforeDueWitness ==
    /\ worker.pc = "parked_timed"
    /\ worker.key \in DOMAIN resync_queue
    /\ now < key_time(worker.key)

\* C16: no task is dropped on failure. When the resync_block of a due task
\* returns an error, resync_iter pushes the same hash back with due time
\* now + RESYNC_RETRY_TIMEOUT and touches no other entry; it returns Ok(true)
\* whether resync_block succeeded or failed; resync_loop then goes back to its
\* test, and the worker leaves the loop only when shutdown is signalled.
NoTaskDropped ==
    [][/\ (worker.pc = "rb_done" /\ worker' # worker)
          => /\ worker'.pc = "iter_ret" /\ worker'.iter = "Ok(true)"
             /\ worker.res = "Err"
                  => /\ resync_queue' =
                           tree_insert(resync_queue,
                                       resync_key(now + RESYNC_RETRY_TIMEOUT, worker.hash),
                                       worker.hash)
                     /\ \E k \in DOMAIN resync_queue' :
                           /\ resync_queue'[k] = worker.hash
                           /\ key_time(k) = now + RESYNC_RETRY_TIMEOUT
             /\ worker.res # "Err" => resync_queue' = resync_queue
       /\ (worker.pc = "iter_ret" /\ worker' # worker) => worker'.pc = "loop"
       /\ (worker.pc # "exited" /\ worker'.pc = "exited") => must_exit
      ]_vars

\* C16 witness: a fetch has failed at a later time than the start, the hash is
\* back in the queue RESYNC_RETRY_TIMEOUT from now, and resync_iter has
\* returned Ok(true) to a loop that goes on.
NoTaskDroppedWitness ==
    /\ worker.pc = "iter_ret" /\ worker.iter = "Ok(true)"
    /\ ~must_exit
    /\ now > 0
    /\ \E h \in Hashes :
          /\ needed(h) /\ ~exists(h)
          /\ resync_key(now + RESYNC_RETRY_TIMEOUT, h) \in DOMAIN resync_queue

\* This step pushes the task that block_incref pushes for h.
PushesRwTask(h) ==
    LET key == resync_key(now + BLOCK_RW_TIMEOUT, h) IN
    key \notin DOMAIN resync_queue /\ key \in DOMAIN resync_queue'

\* What the refcount operations do to the queue when they change a counter:
\* an incref pushes with BLOCK_RW_TIMEOUT exactly when the prior value was zero
\* or absent, a decref that removes the entry pushes with BLOCK_GC_TIMEOUT, a
\* decref that leaves a positive counter pushes nothing.
EnqueueOnCounterChange(h) ==
    /\ get_block_rc(h)' = get_block_rc(h) + 1
          => resync_queue' = IF h \in DOMAIN rc
                             THEN resync_queue
                             ELSE tree_insert(resync_queue,
                                              resync_key(now + BLOCK_RW_TIMEOUT, h), h)
    /\ PushesRwTask(h) => (h \notin DOMAIN rc /\ get_block_rc(h)' = 1)
    /\ (h \in DOMAIN rc /\ h \notin DOMAIN rc')
          => resync_queue' = tree_insert(resync_queue,
                                         resync_key(now + BLOCK_GC_TIMEOUT, h), h)
    /\ (h \in DOMAIN rc' /\ get_block_rc(h)' = get_block_rc(h) - 1)
          => resync_queue' = resync_queue

\* C17 as stated: refcount operations enqueue a resync task exactly on a change
\* of the needed bit: block_incref(h) pushes with BLOCK_RW_TIMEOUT if and only
\* if the prior value was zero or absent, block_decref(h) pushes with
\* BLOCK_GC_TIMEOUT if and only if the call removed the entry, and a decref of
\* an absent hash changes neither the rc tree nor the resync queue.
EnqueueOnNeededChange ==
    [][\A h \in Hashes :
          /\ EnqueueOnCounterChange(h)
          /\ PushesGcTask(h) => (h \in DOMAIN rc /\ h \notin DOMAIN rc')
      ]_vars

\* C17 amended: block_incref(h) pushes with BLOCK_RW_TIMEOUT if and only if the
\* prior value was zero or absent; block_decref(h) pushes with BLOCK_GC_TIMEOUT
\* if and only if h has no entry once it has run, whether it removed the entry
\* (1 to absent) or found none; a decref of an absent hash leaves the rc tree
\* unchanged and does push that task.
EnqueueOnEmptyEntry ==
    [][\A h \in Hashes :
          /\ EnqueueOnCounterChange(h)
          /\ PushesGcTask(h)
                => /\ h \notin DOMAIN rc'
                   /\ get_block_rc(h) <= 1
                   /\ h \notin DOMAIN rc => rc' = rc
      ]_vars

\* C17 witness: at the start of time one hash has been referenced once (its
\* BLOCK_RW_TIMEOUT task is in the queue) and another, never referenced, has
\* been dereferenced: it has no entry and its BLOCK_GC_TIMEOUT task is in the
\* queue.
EnqueueOnEmptyEntryWitness ==
    \E h, g \in Hashes :
        /\ now = 0
        /\ get_block_rc(g) = 1
        /\ resync_key(BLOCK_RW_TIMEOUT, g) \in DOMAIN resync_queue
        /\ h \notin DOMAIN rc
        /\ resync_key(BLOCK_RW_TIMEOUT, h) \notin DOMAIN resync_queue
        /\ resync_key(BLOCK_GC_TIMEOUT, h) \in DOMAIN resync_queue

\* The handler task answers its caller in this step.
HandlerAnswers == putter.pc # "ret" /\ putter'.pc = "ret"

\* C18: the endpoint handler answers NeedBlockQuery(h) with
\* NeedBlockReply(refcount(h) > 0 and file of h absent), computed with the
\* mutation lock taken, and changes nothing; it answers PutBlock with Ok once
\* write_block has left the file in place, and GetBlock with a PutBlock message
\* carrying the hash and the verified content that read_block found; a request
\* of variant Ok or NeedBlockReply gets BadRpc and changes no file, refcount or
\* queue entry.
RpcDispatch ==
    [][/\ HandlerAnswers
          => putter'.ret \in {"Ok", "NeedBlockReply(true)", "NeedBlockReply(false)",
                              "BadRpc"}
       /\ (HandlerAnswers /\ putter'.ret \in {"NeedBlockReply(true)",
                                               "NeedBlockReply(false)"})
          => /\ putter'.ret = "NeedBlockReply(true)"
                  <=> (get_block_rc(putter'.hash) > 0
                       /\ block_file[putter'.hash] = NoFile)
             /\ mutation_lock = "free" /\ mutation_lock' = "free"
             /\ UNCHANGED <<rc, resync_queue, block_file, tmp_file, corrupted_file>>
       /\ (HandlerAnswers /\ putter'.ret = "BadRpc")
          => UNCHANGED <<rc, resync_queue, block_file, tmp_file, corrupted_file,
                         mutation_lock>>
       /\ (HandlerAnswers /\ putter'.ret = "Ok")
          => /\ block_file'[putter'.hash] # NoFile
             /\ tmp_file'[putter'.hash] = NoFile
             /\ mutation_lock' = "free"
       /\ (reader.pc # "ret" /\ reader'.pc = "ret" /\ reader'.ret = "Ok")
          => /\ reader'.data = block_file[reader'.hash]
             /\ blake2sum(reader'.data) = reader'.hash
      ]_vars

\* C18 witness: NeedBlockQuery has been answered true for a hash that is
\* referenced and has no file.
RpcDispatchWitness ==
    /\ putter.pc = "ret" /\ putter.ret = "NeedBlockReply(true)"
    /\ get_block_rc(putter.hash) > 0
    /\ block_file[putter.hash] = NoFile

\* C20: quarantine only hits corrupt files. Whatever the interleaving of
\* read_block calls with the worker and the writers, the file that
\* move_block_to_corrupted renames is the one whose bytes failed the digest
\* check of that read_block call: a canonical file whose content hashes to its
\* name is never renamed to .corrupted.
QuarantineOnlyCorrupt ==
    [][\A h \in Hashes :
          MovedToCorrupted(h)
          => /\ blake2sum(block_file[h]) # h
             /\ (reader.pc = "corrupted" /\ reader' # reader)
                   => block_file[h] = reader.data
             /\ (worker.pc = "rb_corrupted" /\ worker' # worker)
                   => block_file[h] = worker.data
      ]_vars

\* The name is made of hex digits, of lowercase hex digits.
IsHex(name) ==
    \A i \in 1..Len(name) : \E v \in 1..16 : name[i] \in {LowerHex[v], UpperHex[v]}
IsLowerHex(name) ==
    \A i \in 1..Len(name) : \E v \in 1..16 : name[i] = LowerHex[v]

\* The entry of the tree that is the directory holding e, k levels below data_dir.
Ancestor(e, k) == [path |-> SubSeq(e.path, 1, k), type |-> "dir"]

\* The entry is named as the file of h: the hex digits of h, in either case.
NamedAfter(e, h) ==
    LET name == e.path[Len(e.path)] IN
    /\ Len(name) = 2 * HashLen
    /\ IsHex(name)
    /\ \A i \in 1..Len(name) : \E v \in 1..16 :
          /\ hex_encode(h)[i] = LowerHex[v]
          /\ name[i] \in {LowerHex[v], UpperHex[v]}

\* The calls the rule by depth allows: regular files at depth 3 named after a
\* hash, below two directories named with two lowercase hex digits.
WalkedByDepth(tree) ==
    { [at |-> x[1].path, hash |-> x[2]] :
        x \in { y \in tree \X Hashes :
                  /\ Len(y[1].path) = 3
                  /\ y[1].type = "file"
                  /\ NamedAfter(y[1], y[2])
                  /\ \A k \in 1..2 :
                        /\ Ancestor(y[1], k) \in tree
                        /\ Len(y[1].path[k]) = 2
                        /\ IsLowerHex(y[1].path[k]) } }

\* The calls the rule by name allows: entries of any type at any depth named
\* after a hash, below directories named with two hex digits of either case.
WalkedByName(tree) ==
    { [at |-> x[1].path, hash |-> x[2]] :
        x \in { y \in tree \X Hashes :
                  /\ NamedAfter(y[1], y[2])
                  /\ \A k \in 1..(Len(y[1].path) - 1) :
                        /\ Ancestor(y[1], k) \in tree
                        /\ Len(y[1].path[k]) = 2
                        /\ IsHex(y[1].path[k]) } }

\* A walk that is not cut short by shutdown ends in this step.
WalkEnds == scan.pc = "idle" /\ scan'.pc = "done" /\ ~must_exit

\* C19 as stated: for_each_file descends only into directories at depth 1 and 2
\* whose name is two lowercase hex characters and calls the callback only for
\* regular files at depth 3 whose name is the hex of a hash; every other entry
\* is skipped without a call.
WalkRuleByDepth ==
    [][WalkEnds => scan'.found = WalkedByDepth(data_dir)]_vars

\* C19 amended: for_each_file descends, at every depth, into the directories
\* whose name is two hex characters of either case, and calls the callback for
\* every other entry it meets whose name is the hex of a hash in either case,
\* at any depth and of any file type, with the hash the name decodes to; names
\* that are no hex, .tmp and .corrupted files, symlinks and files named with
\* two hex characters are skipped, and nothing is walked below them.
WalkRuleByName ==
    [][WalkEnds => scan'.found = WalkedByName(data_dir)]_vars

\* C19 witness: a walk has made a call for the block file in its place and one
\* for a file of the same name right below data_dir, and none for the .tmp
\* sibling it met.
WalkRuleByNameWitness ==
    /\ scan.pc = "done"
    /\ [at |-> block_path(TheHash), hash |-> TheHash] \in scan.found
    /\ [at |-> <<HashName>>, hash |-> TheHash] \in scan.found
    /\ [path |-> <<Dir1, Dir2, TmpName>>, type |-> "file"] \in data_dir
    /\ \A c \in scan.found : c.at # <<Dir1, Dir2, TmpName>>
====
